---------------------------- MODULE Spec2Model ----------------------------
(***************************************************************************)
(* Session lifecycle of the godcr/dcrcli command line wallet.              *)
(*                                                                         *)
(*   Spec        src/main.go: main, listenForShutdown and handleShutdown   *)
(*               as three goroutines sharing beginShutdown, shutdownOps,   *)
(*               opError and the wait group.                               *)
(*   WalletSpec  src/unnamed/part_001 (package cli): openWallet,           *)
(*               attemptToCreateWallet, createWallet and syncBlockChain    *)
(*               with their spawned goroutines, under a context that the   *)
(*               environment may cancel at any moment.                     *)
(*                                                                         *)
(* Program counters are named after the source line the goroutine is       *)
(* about to execute.                                                       *)
(***************************************************************************)
EXTENDS Integers, Sequences, FiniteSets, TLC

\* ------------------------------------------------------------------ bounds

\* number of interrupt/termination signals the operating system delivers
MaxSignals == 2

\* ------------------------------------------------------------------- state

VARIABLES
    \* ---- src/main.go
    mode,           \* appConfig: "http" | "desktop" | "cli"
    pcMain,         \* main goroutine
    pcListen,       \* listenForShutdown goroutine
    pcHs,           \* handleShutdown goroutine
    shutdownOps,    \* var shutdownOps []func()  (sequence of hook names)
    opError,        \* var opError error         ("nil" or an error value)
    ctxCancelled,   \* ctx.Done() is closed
    wgCount,        \* shutdownWaitGroup counter
    interruptChannel, \* number of signals buffered in interruptChannel (cap 1)
    sigCount,       \* signals delivered by the operating system so far
    ackCount,       \* "Already shutting down" lines printed
    hsRecvCount,    \* receives from beginShutdown performed by handleShutdown
    hsOps,          \* the slice value the range statement iterates
    hsIdx,          \* index of the range loop (1-based)
    started,        \* hooks called so far, in call order
    completed,      \* hooks that returned so far, in return order
    walletClosed,   \* walletMiddleware.CloseWallet has run
    exited,         \* the process has terminated
    exitStatus,     \* its exit status (meaningful when exited)
    exitedBy        \* which statement terminated it

mainVars == <<mode, pcMain, pcListen, pcHs, shutdownOps, opError, ctxCancelled,
              wgCount, interruptChannel, sigCount, ackCount, hsRecvCount, hsOps,
              hsIdx, started, completed, walletClosed, exited, exitStatus, exitedBy>>

VARIABLES
    \* ---- src/unnamed/part_001 (package cli)
    entry,          \* the lifecycle operation the command called
    pcW,            \* the calling goroutine
    result,         \* the error the entry operation returned ("none" while running)
    pcLoad,         \* goroutine spawned by openWallet (part_001:93-114)
    err,            \* openWallet: var err error
    errMsg,         \* openWallet: var errMsg string
    noWalletFound,  \* openWallet: var noWalletFound bool
    pcSync,         \* goroutine spawned by syncBlockChain (part_001:165-188)
    pcEnded,        \* the middleware's invocation of the SyncEnded callback
    startResult,    \* what walletMiddleware.SyncBlockChain returned ("none" before)
    endedErr,       \* the error the middleware passed to SyncEnded ("none" before)
    delivered,      \* senders whose send on syncDone was received
    line,           \* the line RequestInput has read and is validating
    userResponse,   \* attemptToCreateWallet: userResponse
    passphrase,     \* createWallet: passphrase
    confirmPassphrase, \* createWallet: confirmPassphrase
    log,            \* middleware calls made and prompts answered, in order
    cancelledBeforeExists \* history: ctx was cancelled when WalletExists returned

walletVars == <<entry, pcW, result, pcLoad, err, errMsg, noWalletFound, pcSync,
                pcEnded, startResult, endedErr, delivered, line, userResponse,
                passphrase, confirmPassphrase, log, cancelledBeforeExists>>

\* every variable of package cli but pcW, which closing ctx.Done() may wake
walletFrame == <<entry, result, pcLoad, err, errMsg, noWalletFound, pcSync,
                 pcEnded, startResult, endedErr, delivered, line, userResponse,
                 passphrase, confirmPassphrase, log, cancelledBeforeExists>>

\* every variable of src/main.go but ctxCancelled, which the lifecycle reads
mainFrame == <<mode, pcMain, pcListen, pcHs, shutdownOps, opError, wgCount,
               interruptChannel, sigCount, ackCount, hsRecvCount, hsOps, hsIdx,
               started, completed, walletClosed, exited, exitStatus, exitedBy>>

vars == <<mainVars, walletVars>>

Modes == {"http", "desktop", "cli"}
Errors == {"nil", "err"}

\* ------------------------------------------------------------ src/main.go

MainInit ==
    /\ mode \in Modes
    /\ pcMain = "L63"
    /\ pcListen = "unborn"
    /\ pcHs = "unborn"
    /\ shutdownOps = <<>>
    /\ opError = "nil"
    /\ ctxCancelled = FALSE
    /\ wgCount = 0
    /\ interruptChannel = 0
    /\ sigCount = 0
    /\ ackCount = 0
    /\ hsRecvCount = 0
    /\ hsOps = <<>>
    /\ hsIdx = 0
    /\ started = <<>>
    /\ completed = <<>>
    /\ walletClosed = FALSE
    /\ exited = FALSE
    /\ exitStatus = 0
    /\ exitedBy = "none"

\* os.Exit(status), or main returning (status 0): every goroutine stops.
Exit(status, by) ==
    /\ exited' = TRUE
    /\ exitStatus' = status
    /\ exitedBy' = by

NoExit == UNCHANGED <<exited, exitStatus, exitedBy>>

\* main.go:63  go listenForInterruptRequests()
MainSpawnListener ==
    /\ ~exited /\ pcMain = "L63"
    /\ pcMain' = "L64"
    /\ pcListen' = "L216"
    /\ UNCHANGED <<mode, pcHs, shutdownOps, opError, ctxCancelled, wgCount,
                   interruptChannel, sigCount, ackCount, hsRecvCount, hsOps, hsIdx,
                   started, completed, walletClosed>>
    /\ UNCHANGED walletVars
    /\ NoExit

\* main.go:64  go handleShutdown(shutdownWaitGroup)
MainSpawnHandleShutdown ==
    /\ ~exited /\ pcMain = "L64"
    /\ pcMain' = "L68"
    /\ pcHs' = "L233"
    /\ UNCHANGED <<mode, pcListen, shutdownOps, opError, ctxCancelled, wgCount,
                   interruptChannel, sigCount, ackCount, hsRecvCount, hsOps, hsIdx,
                   started, completed, walletClosed>>
    /\ UNCHANGED walletVars
    /\ NoExit

\* main.go:68-69  ctx, cancel := context.WithCancel(...); append(shutdownOps, cancel)
MainRegisterCancel ==
    /\ ~exited /\ pcMain = "L68"
    /\ shutdownOps' = Append(shutdownOps, "cancel")
    /\ pcMain' = "L72"
    /\ UNCHANGED <<mode, pcListen, pcHs, opError, ctxCancelled, wgCount,
                   interruptChannel, sigCount, ackCount, hsRecvCount, hsOps, hsIdx,
                   started, completed, walletClosed>>
    /\ UNCHANGED walletVars
    /\ NoExit

\* main.go:72, 99-119  connectToWallet: returns the middleware, or os.Exit(1)
\* when the dcrwallet rpc connection fails.
MainConnectToWallet ==
    /\ ~exited /\ pcMain = "L72"
    /\ \E connected \in BOOLEAN :
         IF connected
           THEN /\ pcMain' = "L73"
                /\ NoExit
           ELSE /\ pcMain' = "exit"
                /\ Exit(1, "connectToWallet")
    /\ UNCHANGED <<mode, pcListen, pcHs, shutdownOps, opError, ctxCancelled, wgCount,
                   interruptChannel, sigCount, ackCount, hsRecvCount, hsOps, hsIdx,
                   started, completed, walletClosed>>
    /\ UNCHANGED walletVars

\* main.go:75, 85, 87  the run mode is a function of the configuration
ModeEntry(m) ==
    IF m = "http" THEN "L76" ELSE IF m = "desktop" THEN "L86" ELSE "L88"

\* main.go:73  append(shutdownOps, walletMiddleware.CloseWallet)
MainRegisterCloseWallet ==
    /\ ~exited /\ pcMain = "L73"
    /\ shutdownOps' = Append(shutdownOps, "CloseWallet")
    /\ pcMain' = ModeEntry(mode)
    /\ UNCHANGED <<mode, pcListen, pcHs, opError, ctxCancelled, wgCount,
                   interruptChannel, sigCount, ackCount, hsRecvCount, hsOps, hsIdx,
                   started, completed, walletClosed>>
    /\ UNCHANGED walletVars
    /\ NoExit

\* main.go:76-79  if len(args) > 0 { ...; os.Exit(1) }
MainHttpCheckArgs ==
    /\ ~exited /\ pcMain = "L76"
    /\ \E extraArgs \in BOOLEAN :
         IF extraArgs
           THEN /\ pcMain' = "exit"
                /\ Exit(1, "unexpectedArgs")
           ELSE /\ pcMain' = "L80"
                /\ NoExit
    /\ UNCHANGED <<mode, pcListen, pcHs, shutdownOps, opError, ctxCancelled, wgCount,
                   interruptChannel, sigCount, ackCount, hsRecvCount, hsOps, hsIdx,
                   started, completed, walletClosed>>
    /\ UNCHANGED walletVars

\* main.go:80  opError = web.StartHttpServer(ctx, ...): a blocking call that
\* returns, with an error or nil, at any time.
MainStartHttpServer ==
    /\ ~exited /\ pcMain = "L80"
    /\ \E e \in Errors : opError' = e
    /\ pcMain' = "L82"
    /\ UNCHANGED <<mode, pcListen, pcHs, shutdownOps, ctxCancelled, wgCount,
                   interruptChannel, sigCount, ackCount, hsRecvCount, hsOps, hsIdx,
                   started, completed, walletClosed>>
    /\ UNCHANGED walletVars
    /\ NoExit

\* main.go:82  if opError != nil && ctx.Err() == nil
MainHttpCheck ==
    /\ ~exited /\ pcMain = "L82"
    /\ pcMain' = IF opError # "nil" /\ ~ctxCancelled THEN "L83" ELSE "L94"
    /\ UNCHANGED <<mode, pcListen, pcHs, shutdownOps, opError, ctxCancelled, wgCount,
                   interruptChannel, sigCount, ackCount, hsRecvCount, hsOps, hsIdx,
                   started, completed, walletClosed>>
    /\ UNCHANGED walletVars
    /\ NoExit

\* main.go:86, 121-124  enterDesktopMode: desktop.StartDesktopApp returns
MainDesktop ==
    /\ ~exited /\ pcMain = "L86"
    /\ pcMain' = "L94"
    /\ UNCHANGED <<mode, pcListen, pcHs, shutdownOps, opError, ctxCancelled, wgCount,
                   interruptChannel, sigCount, ackCount, hsRecvCount, hsOps, hsIdx,
                   started, completed, walletClosed>>
    /\ UNCHANGED walletVars
    /\ NoExit

\* main.go:88  opError = cli.Run(ctx, walletMiddleware, appConfig)
MainCliRun ==
    /\ ~exited /\ pcMain = "L88"
    /\ \E e \in Errors : opError' = e
    /\ pcMain' = "L90"
    /\ UNCHANGED <<mode, pcListen, pcHs, shutdownOps, ctxCancelled, wgCount,
                   interruptChannel, sigCount, ackCount, hsRecvCount, hsOps, hsIdx,
                   started, completed, walletClosed>>
    /\ UNCHANGED walletVars
    /\ NoExit

\* main.go:88  cli.Run(ctx, walletMiddleware, appConfig) is entered: before it
\* runs the command it hands control to openWallet (part_001:84).
CliRunOpenWallet ==
    /\ ~exited /\ pcMain = "L88" /\ pcW = "idle"
    /\ pcMain' = "L88w"
    /\ entry' = "openWallet"
    /\ pcW' = "L91"
    /\ UNCHANGED <<mode, pcListen, pcHs, shutdownOps, opError, ctxCancelled, wgCount,
                   interruptChannel, sigCount, ackCount, hsRecvCount, hsOps, hsIdx,
                   started, completed, walletClosed>>
    /\ UNCHANGED <<result, pcLoad, err, errMsg, noWalletFound, pcSync, pcEnded,
                   startResult, endedErr, delivered, line, userResponse,
                   passphrase, confirmPassphrase, log, cancelledBeforeExists>>
    /\ NoExit

\* main.go:88  opError = cli.Run(...): cli.Run returns the error openWallet
\* returned; after a nil it runs the command and returns the command's result.
CliRunReturn ==
    /\ ~exited /\ pcMain = "L88w" /\ pcW = "returned"
    /\ IF result # "nil"
         THEN opError' = result
         ELSE \E e \in Errors : opError' = e
    /\ pcMain' = "L90"
    /\ UNCHANGED <<mode, pcListen, pcHs, shutdownOps, ctxCancelled, wgCount,
                   interruptChannel, sigCount, ackCount, hsRecvCount, hsOps, hsIdx,
                   started, completed, walletClosed>>
    /\ UNCHANGED walletVars
    /\ NoExit

\* main.go:94-95  shutdownWaitGroup.Wait() returns when the counter is zero,
\* then main returns and the process exits with status 0.
MainWait ==
    /\ ~exited /\ pcMain = "L94"
    /\ wgCount = 0
    /\ pcMain' = "exit"
    /\ Exit(0, "main")
    /\ UNCHANGED <<mode, pcListen, pcHs, shutdownOps, opError, ctxCancelled, wgCount,
                   interruptChannel, sigCount, ackCount, hsRecvCount, hsOps, hsIdx,
                   started, completed, walletClosed>>
    /\ UNCHANGED walletVars

\* main.go:83, 90  main is about to send (or is blocked sending) on beginShutdown
MainAtSend == pcMain \in {"L83", "L90"}

\* ---- listenForShutdown

\* main.go:216-217  make(chan os.Signal, 1); signal.Notify(...)
ListenNotify ==
    /\ ~exited /\ pcListen = "L216"
    /\ pcListen' = "L220"
    /\ UNCHANGED <<mode, pcMain, pcHs, shutdownOps, opError, ctxCancelled, wgCount,
                   interruptChannel, sigCount, ackCount, hsRecvCount, hsOps, hsIdx,
                   started, completed, walletClosed>>
    /\ UNCHANGED walletVars
    /\ NoExit

\* The operating system delivers SIGINT/SIGTERM once signal.Notify has
\* registered the channel: os/signal does a non-blocking send on it (capacity
\* 1, main.go:216), so a signal that finds the buffer full is dropped.  (A
\* signal before Notify has the default disposition and kills the process; no
\* goroutine of the program observes it.)
SignalDelivered ==
    /\ ~exited /\ pcListen \in {"L220", "L222", "L226"}
    /\ sigCount < MaxSignals
    /\ sigCount' = sigCount + 1
    /\ interruptChannel' = 1
    /\ UNCHANGED <<mode, pcMain, pcListen, pcHs, shutdownOps, opError, ctxCancelled,
                   wgCount, ackCount, hsRecvCount, hsOps, hsIdx, started, completed,
                   walletClosed>>
    /\ UNCHANGED walletVars
    /\ NoExit

\* main.go:220-221  sig := <-interruptChannel
ListenFirstSignal ==
    /\ ~exited /\ pcListen = "L220"
    /\ interruptChannel = 1
    /\ interruptChannel' = 0
    /\ pcListen' = "L222"
    /\ UNCHANGED <<mode, pcMain, pcHs, shutdownOps, opError, ctxCancelled, wgCount,
                   sigCount, ackCount, hsRecvCount, hsOps, hsIdx, started, completed,
                   walletClosed>>
    /\ UNCHANGED walletVars
    /\ NoExit

\* main.go:225-228  for { <-interruptChannel; Println("Already shutting down") }
ListenLaterSignal ==
    /\ ~exited /\ pcListen = "L226"
    /\ interruptChannel = 1
    /\ interruptChannel' = 0
    /\ ackCount' = ackCount + 1
    /\ UNCHANGED <<mode, pcMain, pcListen, pcHs, shutdownOps, opError, ctxCancelled,
                   wgCount, sigCount, hsRecvCount, hsOps, hsIdx, started, completed,
                   walletClosed>>
    /\ UNCHANGED walletVars
    /\ NoExit

\* ---- handleShutdown

\* main.go:233  wg.Add(1)
HsAdd ==
    /\ ~exited /\ pcHs = "L233"
    /\ wgCount' = wgCount + 1
    /\ pcHs' = "L235"
    /\ UNCHANGED <<mode, pcMain, pcListen, shutdownOps, opError, ctxCancelled,
                   interruptChannel, sigCount, ackCount, hsRecvCount, hsOps, hsIdx,
                   started, completed, walletClosed>>
    /\ UNCHANGED walletVars
    /\ NoExit

\* main.go:235 with 222  <-beginShutdown meets the listener's beginShutdown <- true
\* (beginShutdown is unbuffered, main.go:35: a send completes only with a receive)
HsRecvFromListener ==
    /\ ~exited /\ pcHs = "L235" /\ pcListen = "L222"
    /\ pcHs' = "L236"
    /\ pcListen' = "L226"
    /\ hsRecvCount' = hsRecvCount + 1
    /\ UNCHANGED <<mode, pcMain, shutdownOps, opError, ctxCancelled, wgCount,
                   interruptChannel, sigCount, ackCount, hsOps, hsIdx, started,
                   completed, walletClosed>>
    /\ UNCHANGED walletVars
    /\ NoExit

\* main.go:235 with 83 or 90  <-beginShutdown meets main's beginShutdown <- true
HsRecvFromMain ==
    /\ ~exited /\ pcHs = "L235" /\ MainAtSend
    /\ pcHs' = "L236"
    /\ pcMain' = "L94"
    /\ hsRecvCount' = hsRecvCount + 1
    /\ UNCHANGED <<mode, pcListen, shutdownOps, opError, ctxCancelled, wgCount,
                   interruptChannel, sigCount, ackCount, hsOps, hsIdx, started,
                   completed, walletClosed>>
    /\ UNCHANGED walletVars
    /\ NoExit

\* main.go:236  for _, shutdownOp := range shutdownOps: the range expression is
\* evaluated once, so the loop iterates the slice as it is at this moment.
HsRange ==
    /\ ~exited /\ pcHs = "L236"
    /\ hsOps' = shutdownOps
    /\ hsIdx' = 1
    /\ pcHs' = IF Len(shutdownOps) = 0 THEN "L241" ELSE "L237"
    /\ UNCHANGED <<mode, pcMain, pcListen, shutdownOps, opError, ctxCancelled, wgCount,
                   interruptChannel, sigCount, ackCount, hsRecvCount, started,
                   completed, walletClosed>>
    /\ UNCHANGED walletVars
    /\ NoExit

\* part_001:130, 191  case <-ctx.Done(): closing the channel wakes a goroutine
\* parked in a select on it, which continues in that case.
WakeOnCancel(pc) ==
    IF pc = "L116p" THEN "L131" ELSE IF pc = "L190p" THEN "L192" ELSE pc

\* main.go:237  shutdownOp() is called: cancel closes ctx.Done(), CloseWallet
\* closes the wallet.
HsCallHook ==
    /\ ~exited /\ pcHs = "L237"
    /\ started' = Append(started, hsOps[hsIdx])
    /\ ctxCancelled' = (ctxCancelled \/ hsOps[hsIdx] = "cancel")
    /\ walletClosed' = (walletClosed \/ hsOps[hsIdx] = "CloseWallet")
    /\ pcW' = IF hsOps[hsIdx] = "cancel" THEN WakeOnCancel(pcW) ELSE pcW
    /\ pcHs' = "inHook"
    /\ UNCHANGED <<mode, pcMain, pcListen, shutdownOps, opError, wgCount,
                   interruptChannel, sigCount, ackCount, hsRecvCount, hsOps, hsIdx,
                   completed>>
    /\ UNCHANGED walletFrame
    /\ NoExit

\* where handleShutdown continues once the range loop is over (main.go:241)
HsAfterLoop == "L241"

\* main.go:237-238  shutdownOp() returns; next iteration or end of the loop
HsHookReturn ==
    /\ ~exited /\ pcHs = "inHook"
    /\ completed' = Append(completed, hsOps[hsIdx])
    /\ hsIdx' = hsIdx + 1
    /\ pcHs' = IF hsIdx < Len(hsOps) THEN "L237" ELSE HsAfterLoop
    /\ UNCHANGED <<mode, pcMain, pcListen, shutdownOps, opError, ctxCancelled, wgCount,
                   interruptChannel, sigCount, ackCount, hsRecvCount, hsOps, started,
                   walletClosed>>
    /\ UNCHANGED walletVars
    /\ NoExit

\* main.go:237  shutdownOp() fails: a func() has no result to report a failure
\* with, so the failure that reaches handleShutdown is a panic.  Nothing in
\* handleShutdown or in main recovers it: the runtime prints the panic and
\* terminates the process with status 2.
HsHookPanics ==
    /\ ~exited /\ pcHs = "inHook"
    /\ pcHs' = "exit"
    /\ Exit(2, "panic")
    /\ UNCHANGED <<mode, pcMain, pcListen, shutdownOps, opError, ctxCancelled, wgCount,
                   interruptChannel, sigCount, ackCount, hsRecvCount, hsOps, hsIdx,
                   started, completed, walletClosed>>
    /\ UNCHANGED walletVars

\* mutant: handleShutdown waits for the next signal after wg.Done()
HsAfterDoneLoops == "L235"

\* where handleShutdown continues after wg.Done() (main.go:244)
HsAfterDone == "L244"

\* main.go:241  wg.Done()
HsWgDone ==
    /\ ~exited /\ pcHs = "L241"
    /\ wgCount' = wgCount - 1
    /\ pcHs' = HsAfterDone
    /\ UNCHANGED <<mode, pcMain, pcListen, shutdownOps, opError, ctxCancelled,
                   interruptChannel, sigCount, ackCount, hsRecvCount, hsOps, hsIdx,
                   started, completed, walletClosed>>
    /\ UNCHANGED walletVars
    /\ NoExit

\* main.go:244-246  if opError != nil { os.Exit(1) }
HsCheckError ==
    /\ ~exited /\ pcHs = "L244"
    /\ IF opError # "nil"
         THEN /\ pcHs' = "exit"
              /\ Exit(1, "handleShutdown")
         ELSE /\ pcHs' = "returned"
              /\ NoExit
    /\ UNCHANGED <<mode, pcMain, pcListen, shutdownOps, opError, ctxCancelled, wgCount,
                   interruptChannel, sigCount, ackCount, hsRecvCount, hsOps, hsIdx,
                   started, completed, walletClosed>>
    /\ UNCHANGED walletVars

\* ------------------------------------------- src/unnamed/part_001 (package cli)

\* longest line typed at a prompt
MaxLen == 3

\* longest passphrase typed
MaxPassLen == 2

Quote == "\""
WhiteSpace == {" "}
Alphabet == {"y", "Y", "n", "N", "O", "o", "K", " ", Quote}

\* the lines a user may type at the create-wallet offer and the backup prompt
Inputs == UNION {[1..n -> Alphabet] : n \in 0..MaxLen}

\* the entries a user may type at the passphrase prompts
Passphrases == UNION {[1..n -> {"a", "b"}] : n \in 0..MaxPassLen}

NoLine == <<>>
Unset == <<"unset">>

RECURSIVE TrimLeft(_, _)
\* strings.TrimLeft(s, cutset)
TrimLeft(s, cutset) ==
    IF Len(s) > 0 /\ s[1] \in cutset THEN TrimLeft(Tail(s), cutset) ELSE s

RECURSIVE TrimRight(_, _)
\* strings.TrimRight(s, cutset)
TrimRight(s, cutset) ==
    IF Len(s) > 0 /\ s[Len(s)] \in cutset
      THEN TrimRight(SubSeq(s, 1, Len(s) - 1), cutset)
      ELSE s

\* strings.Trim(s, cutset): every leading and trailing character of cutset
Trim(s, cutset) == TrimRight(TrimLeft(s, cutset), cutset)

\* strings.TrimSpace(s)
TrimSpace(s) == Trim(s, WhiteSpace)

\* simple case folding of one character
Fold(c) ==
    CASE c = "Y" -> "y"
      [] c = "N" -> "n"
      [] c = "O" -> "o"
      [] c = "K" -> "k"
      [] OTHER -> c

\* strings.EqualFold(s, t)
EqualFold(s, t) ==
    /\ Len(s) = Len(t)
    /\ \A i \in 1..Len(s) : Fold(s[i]) = Fold(t[i])

\* the text RequestInput hands to its validator and returns: the line, trimmed
RequestInputText(l) == TrimSpace(l)

\* terminalprompt.EmptyValidator: TRUE when the entry is accepted
EmptyValidator(p) == Len(p) > 0

\* mutant: the acknowledgment is compared with == instead of EqualFold
backupValidatorCaseSensitive(response) ==
    Trim(TrimSpace(response), {Quote}) = <<"O", "K">>

\* part_001:52-60  backupValidator: TRUE when it returns nil
backupValidator(response) ==
    LET trimmed == TrimSpace(response)
        unquoted == Trim(trimmed, {Quote})
    IN  EqualFold(<<"O", "K">>, unquoted)

\* part_001:137-145  validateUserResponse: TRUE when it returns nil
validateUserResponse(response) ==
    LET trimmed == TrimSpace(response)
        unquoted == Trim(trimmed, {Quote})
    IN  \/ unquoted = <<>>
        \/ EqualFold(<<"y">>, unquoted)
        \/ EqualFold(<<"N">>, unquoted)

\* mutant: the decline is compared with == "N" instead of EqualFold
IsDeclineCaseSensitive(response) ==
    response = <<>> \/ response = <<"N">>

\* part_001:153  if userResponse == "" || strings.EqualFold("N", userResponse)
IsDecline(response) ==
    response = <<>> \/ EqualFold(<<"N">>, response)

\* mutant: only the lengths of the two entries are compared
PassphrasesDifferInLength(p, c) == Len(p) # Len(c)

\* part_001:37  passphrase != confirmPassphrase
PassphrasesDiffer(p, c) == p # c

\* mutant: the error SyncBlockChain returned is printed but not sent
AfterSyncCallDropsError(e) == "done"

\* part_001:184-187  where the sync goroutine goes when SyncBlockChain returned e
AfterSyncCall(e) == IF e # "nil" THEN "L186" ELSE "done"

\* part_001:193-194  case err := <-syncDone: return err
SelectResult(e) == e

\* mutant: a failed seed generation is reported but createWallet goes on
AfterSeedIgnoresError(e) == "L61"

\* part_001:43-48  if err != nil { return fmt.Errorf("Error generating seed...") }
AfterSeed(e) == IF e = "nil" THEN "L61" ELSE "returned"

\* mutant: the initial sync is started whatever CreateWallet returned
AfterCreateWalletAlwaysSyncs(e) == "L164"

\* part_001:68-76  if err != nil { return ... }; ...; return syncBlockChain(...)
AfterCreateWallet(e) == IF e = "nil" THEN "L164" ELSE "returned"

\* part_001:91-114  loadWalletDone := make(chan bool); go func() {...}()
OpenSpawn ==
    /\ ~exited /\ pcW = "L91"
    /\ pcLoad' = "L99"
    /\ pcW' = "L116"
    /\ UNCHANGED <<entry, result, err, errMsg, noWalletFound, pcSync, pcEnded,
                   startResult, endedErr, delivered, line, userResponse,
                   passphrase, confirmPassphrase, log, cancelledBeforeExists>>
    /\ UNCHANGED <<mainFrame, ctxCancelled>>

\* part_001:99  walletMiddleware.WalletExists() is called
LoadWalletExists ==
    /\ ~exited /\ pcLoad = "L99"
    /\ pcLoad' = "L99c"
    /\ log' = Append(log, "WalletExists")
    /\ UNCHANGED <<entry, pcW, result, err, errMsg, noWalletFound, pcSync, pcEnded,
                   startResult, endedErr, delivered, line, userResponse,
                   passphrase, confirmPassphrase, cancelledBeforeExists>>
    /\ UNCHANGED <<mainFrame, ctxCancelled>>

\* part_001:99-108  walletExists, err = walletMiddleware.WalletExists() returns
LoadWalletExistsReturn ==
    /\ ~exited /\ pcLoad = "L99c"
    /\ \E r \in {"true", "false", "err"} :
         /\ err' = IF r = "err" THEN "existsErr" ELSE "nil"
         /\ errMsg' = IF r = "err" THEN "Error checking wallet" ELSE errMsg
         /\ noWalletFound' = (r = "false")
         /\ pcLoad' = IF r = "true" THEN "L110" ELSE "L95"
    /\ cancelledBeforeExists' = ctxCancelled
    /\ UNCHANGED <<entry, pcW, result, pcSync, pcEnded, startResult, endedErr,
                   delivered, line, userResponse, passphrase, confirmPassphrase,
                   log>>
    /\ UNCHANGED <<mainFrame, ctxCancelled>>

\* part_001:110  walletMiddleware.OpenWallet() is called
LoadOpenWallet ==
    /\ ~exited /\ pcLoad = "L110"
    /\ pcLoad' = "L110c"
    /\ log' = Append(log, "OpenWallet")
    /\ UNCHANGED <<entry, pcW, result, err, errMsg, noWalletFound, pcSync, pcEnded,
                   startResult, endedErr, delivered, line, userResponse,
                   passphrase, confirmPassphrase, cancelledBeforeExists>>
    /\ UNCHANGED <<mainFrame, ctxCancelled>>

\* part_001:110-113  err = walletMiddleware.OpenWallet() returns
LoadOpenWalletReturn ==
    /\ ~exited /\ pcLoad = "L110c"
    /\ \E e \in {"nil", "openErr"} :
         /\ err' = e
         /\ errMsg' = IF e # "nil" THEN "Failed to open wallet" ELSE errMsg
    /\ pcLoad' = "L95"
    /\ UNCHANGED <<entry, pcW, result, noWalletFound, pcSync, pcEnded, startResult,
                   endedErr, delivered, line, userResponse, passphrase,
                   confirmPassphrase, log, cancelledBeforeExists>>
    /\ UNCHANGED <<mainFrame, ctxCancelled>>

\* part_001:94-96  deferred loadWalletDone <- true.  The channel is unbuffered:
\* the send is handed to a receiver parked in the select, otherwise the
\* goroutine queues on the channel and blocks.
LoadSend ==
    /\ ~exited /\ pcLoad = "L95"
    /\ IF pcW = "L116p"
         THEN /\ pcLoad' = "done"
              /\ pcW' = "L118"
         ELSE /\ pcLoad' = "L95q"
              /\ pcW' = pcW
    /\ UNCHANGED <<entry, result, err, errMsg, noWalletFound, pcSync, pcEnded,
                   startResult, endedErr, delivered, line, userResponse,
                   passphrase, confirmPassphrase, log, cancelledBeforeExists>>
    /\ UNCHANGED <<mainFrame, ctxCancelled>>

\* part_001:116-132  select: a case that is ready is taken, any of them when
\* several are ready; with none ready the goroutine parks.
OpenSelect ==
    /\ ~exited /\ pcW = "L116"
    /\ \/ /\ pcLoad = "L95q"
          /\ pcLoad' = "done"
          /\ pcW' = "L118"
       \/ /\ ctxCancelled
          /\ pcW' = "L131"
          /\ pcLoad' = pcLoad
       \/ /\ pcLoad # "L95q" /\ ~ctxCancelled
          /\ pcW' = "L116p"
          /\ pcLoad' = pcLoad
    /\ UNCHANGED <<entry, result, err, errMsg, noWalletFound, pcSync, pcEnded,
                   startResult, endedErr, delivered, line, userResponse,
                   passphrase, confirmPassphrase, log, cancelledBeforeExists>>
    /\ UNCHANGED <<mainFrame, ctxCancelled>>

\* part_001:130-131  case <-ctx.Done(): return ctx.Err()
OpenReturnCtx ==
    /\ ~exited /\ pcW = "L131"
    /\ pcW' = "returned"
    /\ result' = "ctxErr"
    /\ UNCHANGED <<entry, pcLoad, err, errMsg, noWalletFound, pcSync, pcEnded,
                   startResult, endedErr, delivered, line, userResponse,
                   passphrase, confirmPassphrase, log, cancelledBeforeExists>>
    /\ UNCHANGED <<mainFrame, ctxCancelled>>

\* part_001:117-128  case <-loadWalletDone
OpenAfterLoad ==
    /\ ~exited /\ pcW = "L118"
    /\ IF noWalletFound
         THEN /\ pcW' = "L147"
              /\ result' = result
         ELSE /\ pcW' = "returned"
              /\ result' = err
    /\ UNCHANGED <<entry, pcLoad, err, errMsg, noWalletFound, pcSync, pcEnded,
                   startResult, endedErr, delivered, line, userResponse,
                   passphrase, confirmPassphrase, log, cancelledBeforeExists>>
    /\ UNCHANGED <<mainFrame, ctxCancelled>>

\* part_001:147-151  terminalprompt.RequestInput(createWalletPrompt, ...) reads
\* a line, or fails to read one.
OfferRead ==
    /\ ~exited /\ pcW = "L147"
    /\ \/ \E s \in Inputs :
            /\ line' = s
            /\ pcW' = "L147v"
            /\ result' = result
       \/ /\ pcW' = "returned"
          /\ result' = "inputErr"
          /\ line' = line
    /\ UNCHANGED <<entry, pcLoad, err, errMsg, noWalletFound, pcSync, pcEnded,
                   startResult, endedErr, delivered, userResponse, passphrase,
                   confirmPassphrase, log, cancelledBeforeExists>>
    /\ UNCHANGED <<mainFrame, ctxCancelled>>

\* part_001:137-147  RequestInput applies validateUserResponse: it returns the
\* text on acceptance and prompts again on rejection.
OfferValidate ==
    /\ ~exited /\ pcW = "L147v"
    /\ IF validateUserResponse(RequestInputText(line))
         THEN /\ userResponse' = RequestInputText(line)
              /\ log' = Append(log, "offer")
              /\ pcW' = "L153"
         ELSE /\ userResponse' = userResponse
              /\ log' = log
              /\ pcW' = "L147"
    /\ line' = NoLine
    /\ UNCHANGED <<entry, result, pcLoad, err, errMsg, noWalletFound, pcSync,
                   pcEnded, startResult, endedErr, delivered, passphrase,
                   confirmPassphrase, cancelledBeforeExists>>
    /\ UNCHANGED <<mainFrame, ctxCancelled>>

\* part_001:153-158  decline, or return createWallet(ctx, walletMiddleware).
\* userResponse is not read after line 153.
OfferClassify ==
    /\ ~exited /\ pcW = "L153"
    /\ IF IsDecline(userResponse)
         THEN /\ pcW' = "returned"
              /\ result' = "declined"
              /\ userResponse' = userResponse
         ELSE /\ pcW' = "L15"
              /\ result' = result
              /\ userResponse' = Unset
    /\ UNCHANGED <<entry, pcLoad, err, errMsg, noWalletFound, pcSync, pcEnded,
                   startResult, endedErr, delivered, line, passphrase,
                   confirmPassphrase, log, cancelledBeforeExists>>
    /\ UNCHANGED <<mainFrame, ctxCancelled>>

\* part_001:15  walletMiddleware.WalletExists() is called, in createWallet's
\* own goroutine
CreateWalletExists ==
    /\ ~exited /\ pcW = "L15"
    /\ pcW' = "L15c"
    /\ log' = Append(log, "WalletExists")
    /\ UNCHANGED <<entry, result, pcLoad, err, errMsg, noWalletFound, pcSync,
                   pcEnded, startResult, endedErr, delivered, line, userResponse,
                   passphrase, confirmPassphrase, cancelledBeforeExists>>
    /\ UNCHANGED <<mainFrame, ctxCancelled>>

\* part_001:15-24  walletExists, err := walletMiddleware.WalletExists() returns
CreateWalletExistsReturn ==
    /\ ~exited /\ pcW = "L15c"
    /\ \E r \in {"true", "false", "err"} :
         IF r = "false"
           THEN /\ pcW' = "L27"
                /\ result' = result
           ELSE /\ pcW' = "returned"
                /\ result' = IF r = "err" THEN "existsErr" ELSE "alreadyExists"
    /\ UNCHANGED <<entry, pcLoad, err, errMsg, noWalletFound, pcSync, pcEnded,
                   startResult, endedErr, delivered, line, userResponse,
                   passphrase, confirmPassphrase, log, cancelledBeforeExists>>
    /\ UNCHANGED <<mainFrame, ctxCancelled>>

\* part_001:27-31  RequestInputSecure("Enter private passphrase ...",
\* EmptyValidator): an empty entry is asked again.
PassphraseRead ==
    /\ ~exited /\ pcW = "L27"
    /\ \/ \E p \in Passphrases :
            IF EmptyValidator(p)
              THEN /\ passphrase' = p
                   /\ log' = Append(log, "passphrase")
                   /\ pcW' = "L32"
                   /\ result' = result
              ELSE UNCHANGED <<passphrase, log, pcW, result>>
       \/ /\ pcW' = "returned"
          /\ result' = "inputErr"
          /\ UNCHANGED <<passphrase, log>>
    /\ UNCHANGED <<entry, pcLoad, err, errMsg, noWalletFound, pcSync, pcEnded,
                   startResult, endedErr, delivered, line, userResponse,
                   confirmPassphrase, cancelledBeforeExists>>
    /\ UNCHANGED <<mainFrame, ctxCancelled>>

\* part_001:32-36  RequestInputSecure("Confirm passphrase", EmptyValidator)
ConfirmRead ==
    /\ ~exited /\ pcW = "L32"
    /\ \/ \E p \in Passphrases :
            IF EmptyValidator(p)
              THEN /\ confirmPassphrase' = p
                   /\ log' = Append(log, "confirm")
                   /\ pcW' = "L37"
                   /\ result' = result
              ELSE UNCHANGED <<confirmPassphrase, log, pcW, result>>
       \/ /\ pcW' = "returned"
          /\ result' = "inputErr"
          /\ UNCHANGED <<confirmPassphrase, log>>
    /\ UNCHANGED <<entry, pcLoad, err, errMsg, noWalletFound, pcSync, pcEnded,
                   startResult, endedErr, delivered, line, userResponse,
                   passphrase, cancelledBeforeExists>>
    /\ UNCHANGED <<mainFrame, ctxCancelled>>

\* part_001:37-40  if passphrase != confirmPassphrase
ComparePassphrases ==
    /\ ~exited /\ pcW = "L37"
    /\ IF PassphrasesDiffer(passphrase, confirmPassphrase)
         THEN /\ pcW' = "returned"
              /\ result' = "mismatch"
         ELSE /\ pcW' = "L43"
              /\ result' = result
    /\ UNCHANGED <<entry, pcLoad, err, errMsg, noWalletFound, pcSync, pcEnded,
                   startResult, endedErr, delivered, line, userResponse,
                   passphrase, confirmPassphrase, log, cancelledBeforeExists>>
    /\ UNCHANGED <<mainFrame, ctxCancelled>>

\* part_001:43  walletMiddleware.GenerateNewWalletSeed() is called, in
\* createWallet's own goroutine
GenerateSeed ==
    /\ ~exited /\ pcW = "L43"
    /\ pcW' = "L43c"
    /\ log' = Append(log, "GenerateNewWalletSeed")
    /\ UNCHANGED <<entry, result, pcLoad, err, errMsg, noWalletFound, pcSync,
                   pcEnded, startResult, endedErr, delivered, line, userResponse,
                   passphrase, confirmPassphrase, cancelledBeforeExists>>
    /\ UNCHANGED <<mainFrame, ctxCancelled>>

\* part_001:43-48  seed, err := walletMiddleware.GenerateNewWalletSeed() returns
GenerateSeedReturn ==
    /\ ~exited /\ pcW = "L43c"
    /\ \E e \in {"nil", "seedErr"} :
         /\ pcW' = AfterSeed(e)
         /\ result' = IF e = "nil" THEN result ELSE e
    /\ UNCHANGED <<entry, pcLoad, err, errMsg, noWalletFound, pcSync, pcEnded,
                   startResult, endedErr, delivered, line, userResponse,
                   passphrase, confirmPassphrase, log, cancelledBeforeExists>>
    /\ UNCHANGED <<mainFrame, ctxCancelled>>

\* part_001:61-65  terminalprompt.RequestInput(backupPrompt, backupValidator)
BackupRead ==
    /\ ~exited /\ pcW = "L61"
    /\ \/ \E s \in Inputs :
            /\ line' = s
            /\ pcW' = "L61v"
            /\ result' = result
       \/ /\ pcW' = "returned"
          /\ result' = "inputErr"
          /\ line' = line
    /\ UNCHANGED <<entry, pcLoad, err, errMsg, noWalletFound, pcSync, pcEnded,
                   startResult, endedErr, delivered, userResponse, passphrase,
                   confirmPassphrase, log, cancelledBeforeExists>>
    /\ UNCHANGED <<mainFrame, ctxCancelled>>

\* part_001:52-61  RequestInput applies backupValidator: it returns on
\* acceptance and prompts again, for a new line, on rejection.
BackupValidate ==
    /\ ~exited /\ pcW = "L61v"
    /\ IF backupValidator(RequestInputText(line))
         THEN /\ log' = Append(log, "backup")
              /\ pcW' = "L68"
              /\ line' = line
         ELSE /\ log' = log
              /\ pcW' = "L61"
              /\ line' = NoLine
    /\ UNCHANGED <<entry, result, pcLoad, err, errMsg, noWalletFound, pcSync, pcEnded,
                   startResult, endedErr, delivered, userResponse, passphrase,
                   confirmPassphrase, cancelledBeforeExists>>
    /\ UNCHANGED <<mainFrame, ctxCancelled>>

\* part_001:68  walletMiddleware.CreateWallet(passphrase, seed) is called, in
\* createWallet's own goroutine; the answer to the backup prompt was discarded
\* (part_001:61).
CreateWalletCall ==
    /\ ~exited /\ pcW = "L68"
    /\ pcW' = "L68c"
    /\ log' = Append(log, "CreateWallet")
    /\ line' = NoLine
    /\ UNCHANGED <<entry, result, pcLoad, err, errMsg, noWalletFound, pcSync,
                   pcEnded, startResult, endedErr, delivered, userResponse,
                   passphrase, confirmPassphrase, cancelledBeforeExists>>
    /\ UNCHANGED <<mainFrame, ctxCancelled>>

\* part_001:68-76  err = walletMiddleware.CreateWallet(passphrase, seed) returns
CreateWalletReturn ==
    /\ ~exited /\ pcW = "L68c"
    /\ \E e \in {"nil", "createErr"} :
         /\ pcW' = AfterCreateWallet(e)
         /\ result' = IF e = "nil" THEN result ELSE e
    /\ UNCHANGED <<entry, pcLoad, err, errMsg, noWalletFound, pcSync, pcEnded,
                   startResult, endedErr, delivered, line, userResponse,
                   passphrase, confirmPassphrase, log, cancelledBeforeExists>>
    /\ UNCHANGED <<mainFrame, ctxCancelled>>

\* part_001:164-188  syncDone := make(chan error); go func() {...}()
SyncSpawn ==
    /\ ~exited /\ pcW = "L164"
    /\ pcSync' = "L183"
    /\ pcW' = "L190"
    /\ UNCHANGED <<entry, result, pcLoad, err, errMsg, noWalletFound, pcEnded,
                   startResult, endedErr, delivered, line, userResponse,
                   passphrase, confirmPassphrase, log, cancelledBeforeExists>>
    /\ UNCHANGED <<mainFrame, ctxCancelled>>

\* part_001:183  walletMiddleware.SyncBlockChain(syncListener, true) is called
SyncCall ==
    /\ ~exited /\ pcSync = "L183"
    /\ pcSync' = "L183c"
    /\ log' = Append(log, "SyncBlockChain")
    /\ UNCHANGED <<entry, pcW, result, pcLoad, err, errMsg, noWalletFound, pcEnded,
                   startResult, endedErr, delivered, line, userResponse,
                   passphrase, confirmPassphrase, cancelledBeforeExists>>
    /\ UNCHANGED <<mainFrame, ctxCancelled>>

\* part_001:183-187  SyncBlockChain returns; a non-nil error is sent on
\* syncDone, after nil the goroutine ends.
SyncCallReturn ==
    /\ ~exited /\ pcSync = "L183c"
    /\ \E e \in {"nil", "startErr"} :
         /\ startResult' = e
         /\ pcSync' = AfterSyncCall(e)
    /\ UNCHANGED <<entry, pcW, result, pcLoad, err, errMsg, noWalletFound, pcEnded,
                   endedErr, delivered, line, userResponse, passphrase,
                   confirmPassphrase, log, cancelledBeforeExists>>
    /\ UNCHANGED <<mainFrame, ctxCancelled>>

\* part_001:170-176  the middleware invokes syncListener.SyncEnded(err), once per
\* sync attempt, from the call or from a goroutine of its own.
SyncEnded ==
    /\ ~exited /\ pcSync \in {"L183c", "L186", "L186q", "done"}
    /\ pcEnded = "none"
    /\ \E e \in {"nil", "syncErr"} : endedErr' = e
    /\ pcEnded' = "L176"
    /\ UNCHANGED <<entry, pcW, result, pcLoad, err, errMsg, noWalletFound, pcSync,
                   startResult, delivered, line, userResponse, passphrase,
                   confirmPassphrase, log, cancelledBeforeExists>>
    /\ UNCHANGED <<mainFrame, ctxCancelled>>

\* part_001:176  syncDone <- err in SyncEnded
EndedSend ==
    /\ ~exited /\ pcEnded = "L176"
    /\ IF pcW = "L190p"
         THEN /\ pcEnded' = "done"
              /\ delivered' = delivered \cup {"SyncEnded"}
              /\ pcW' = "returned"
              /\ result' = SelectResult(endedErr)
         ELSE /\ pcEnded' = "L176q"
              /\ UNCHANGED <<delivered, pcW, result>>
    /\ UNCHANGED <<entry, pcLoad, err, errMsg, noWalletFound, pcSync, startResult,
                   endedErr, line, userResponse, passphrase, confirmPassphrase,
                   log, cancelledBeforeExists>>
    /\ UNCHANGED <<mainFrame, ctxCancelled>>

\* part_001:186  syncDone <- err after SyncBlockChain failed to start
StartErrSend ==
    /\ ~exited /\ pcSync = "L186"
    /\ IF pcW = "L190p"
         THEN /\ pcSync' = "done"
              /\ delivered' = delivered \cup {"start"}
              /\ pcW' = "returned"
              /\ result' = SelectResult(startResult)
         ELSE /\ pcSync' = "L186q"
              /\ UNCHANGED <<delivered, pcW, result>>
    /\ UNCHANGED <<entry, pcLoad, err, errMsg, noWalletFound, pcEnded, startResult,
                   endedErr, line, userResponse, passphrase, confirmPassphrase,
                   log, cancelledBeforeExists>>
    /\ UNCHANGED <<mainFrame, ctxCancelled>>

\* part_001:190-195  select on ctx.Done() and syncDone: a ready case is taken,
\* any of them when several are ready; with none ready the goroutine parks.
SyncSelect ==
    /\ ~exited /\ pcW = "L190"
    /\ \/ /\ ctxCancelled
          /\ pcW' = "L192"
          /\ UNCHANGED <<pcSync, pcEnded, delivered, result>>
       \/ /\ pcSync = "L186q"
          /\ pcSync' = "done"
          /\ delivered' = delivered \cup {"start"}
          /\ pcW' = "returned"
          /\ result' = SelectResult(startResult)
          /\ pcEnded' = pcEnded
       \/ /\ pcEnded = "L176q"
          /\ pcEnded' = "done"
          /\ delivered' = delivered \cup {"SyncEnded"}
          /\ pcW' = "returned"
          /\ result' = SelectResult(endedErr)
          /\ pcSync' = pcSync
       \/ /\ ~ctxCancelled /\ pcSync # "L186q" /\ pcEnded # "L176q"
          /\ pcW' = "L190p"
          /\ UNCHANGED <<pcSync, pcEnded, delivered, result>>
    /\ UNCHANGED <<entry, pcLoad, err, errMsg, noWalletFound, startResult,
                   endedErr, line, userResponse, passphrase, confirmPassphrase,
                   log, cancelledBeforeExists>>
    /\ UNCHANGED <<mainFrame, ctxCancelled>>

\* part_001:191-192  case <-ctx.Done(): return ctx.Err()
SyncReturnCtx ==
    /\ ~exited /\ pcW = "L192"
    /\ pcW' = "returned"
    /\ result' = "ctxErr"
    /\ UNCHANGED <<entry, pcLoad, err, errMsg, noWalletFound, pcSync, pcEnded,
                   startResult, endedErr, delivered, line, userResponse,
                   passphrase, confirmPassphrase, log, cancelledBeforeExists>>
    /\ UNCHANGED <<mainFrame, ctxCancelled>>

\* main.go:68, 237  the cancel hook runs: ctx.Done() is closed, which wakes a
\* goroutine parked in a select on it.
CtxCancel ==
    /\ ~exited /\ ~ctxCancelled
    /\ ctxCancelled' = TRUE
    /\ pcW' = WakeOnCancel(pcW)
    /\ UNCHANGED walletFrame
    /\ UNCHANGED mainFrame

\* ----------------------------------------------------------- specifications

\* no lifecycle operation is running
WalletIdle ==
    /\ entry = "none"
    /\ pcW = "idle"
    /\ result = "none"
    /\ pcLoad = "idle"
    /\ err = "nil"
    /\ errMsg = ""
    /\ noWalletFound = FALSE
    /\ pcSync = "idle"
    /\ pcEnded = "none"
    /\ startResult = "none"
    /\ endedErr = "none"
    /\ delivered = {}
    /\ line = NoLine
    /\ userResponse = Unset
    /\ passphrase = Unset
    /\ confirmPassphrase = Unset
    /\ log = <<>>
    /\ cancelledBeforeExists = FALSE

\* first statement of each lifecycle operation
EntryPoint(op) ==
    IF op = "openWallet" THEN "L91" ELSE IF op = "createWallet" THEN "L15" ELSE "L164"

\* The process start of src/main.go; the run modes are opaque blocking calls.
Init == MainInit /\ WalletIdle

\* A command of the cli run mode calls one lifecycle operation: main is inside
\* cli.Run (main.go:88), both hooks are registered, the listener and
\* handleShutdown wait for their signals.
WalletInit ==
    /\ mode = "cli"
    /\ pcMain = "L88"
    /\ pcListen = "L220"
    /\ pcHs = "L235"
    /\ shutdownOps = <<"cancel", "CloseWallet">>
    /\ opError = "nil"
    /\ ctxCancelled = FALSE
    /\ wgCount = 1
    /\ interruptChannel = 0
    /\ sigCount = 0
    /\ ackCount = 0
    /\ hsRecvCount = 0
    /\ hsOps = <<>>
    /\ hsIdx = 0
    /\ started = <<>>
    /\ completed = <<>>
    /\ walletClosed = FALSE
    /\ exited = FALSE
    /\ exitStatus = 0
    /\ exitedBy = "none"
    /\ entry \in {"openWallet", "createWallet", "syncBlockChain"}
    /\ pcW = EntryPoint(entry)
    /\ result = "none"
    /\ pcLoad = "idle"
    /\ err = "nil"
    /\ errMsg = ""
    /\ noWalletFound = FALSE
    /\ pcSync = "idle"
    /\ pcEnded = "none"
    /\ startResult = "none"
    /\ endedErr = "none"
    /\ delivered = {}
    /\ line = NoLine
    /\ userResponse = Unset
    /\ passphrase = Unset
    /\ confirmPassphrase = Unset
    /\ log = <<>>
    /\ cancelledBeforeExists = FALSE

WalletNext ==
    \/ OpenSpawn
    \/ LoadWalletExists
    \/ LoadWalletExistsReturn
    \/ LoadOpenWallet
    \/ LoadOpenWalletReturn
    \/ LoadSend
    \/ OpenSelect
    \/ OpenReturnCtx
    \/ OpenAfterLoad
    \/ OfferRead
    \/ OfferValidate
    \/ OfferClassify
    \/ CreateWalletExists
    \/ CreateWalletExistsReturn
    \/ PassphraseRead
    \/ ConfirmRead
    \/ ComparePassphrases
    \/ GenerateSeed
    \/ GenerateSeedReturn
    \/ BackupRead
    \/ BackupValidate
    \/ CreateWalletCall
    \/ CreateWalletReturn
    \/ SyncSpawn
    \/ SyncCall
    \/ SyncCallReturn
    \/ SyncEnded
    \/ EndedSend
    \/ StartErrSend
    \/ SyncSelect
    \/ SyncReturnCtx
    \/ CtxCancel

WalletSpec == WalletInit /\ [][WalletNext]_vars

Next ==
    \/ MainSpawnListener
    \/ MainSpawnHandleShutdown
    \/ MainRegisterCancel
    \/ MainConnectToWallet
    \/ MainRegisterCloseWallet
    \/ MainHttpCheckArgs
    \/ MainStartHttpServer
    \/ MainHttpCheck
    \/ MainDesktop
    \/ MainCliRun
    \/ MainWait
    \/ ListenNotify
    \/ SignalDelivered
    \/ ListenFirstSignal
    \/ ListenLaterSignal
    \/ HsAdd
    \/ HsRecvFromListener
    \/ HsRecvFromMain
    \/ HsRange
    \/ HsCallHook
    \/ HsHookReturn
    \/ HsWgDone
    \/ HsCheckError

Spec == Init /\ [][Next]_vars

\* longest hook list handleShutdown is run on
MaxHooks == 3

\* hooks other than the two main registers: any func()
HookNames == {"A", "B", "C"}

\* handleShutdown on any hook list, each hook returning or failing: the cli run
\* mode has returned and main is about to signal shutdown (main.go:90), every
\* hook is registered, the listener and handleShutdown wait for their signals.
\* (In Spec the hooks are cancel and CloseWallet, which return.)
HookInit ==
    /\ mode = "cli"
    /\ pcMain = "L90"
    /\ pcListen = "L220"
    /\ pcHs = "L235"
    /\ shutdownOps \in UNION {[1..n -> HookNames] : n \in 0..MaxHooks}
    /\ opError \in Errors
    /\ ctxCancelled = FALSE
    /\ wgCount = 1
    /\ interruptChannel = 0
    /\ sigCount = 0
    /\ ackCount = 0
    /\ hsRecvCount = 0
    /\ hsOps = <<>>
    /\ hsIdx = 0
    /\ started = <<>>
    /\ completed = <<>>
    /\ walletClosed = FALSE
    /\ exited = FALSE
    /\ exitStatus = 0
    /\ exitedBy = "none"
    /\ WalletIdle

HookNext ==
    \/ MainWait
    \/ SignalDelivered
    \/ ListenFirstSignal
    \/ ListenLaterSignal
    \/ HsRecvFromListener
    \/ HsRecvFromMain
    \/ HsRange
    \/ HsCallHook
    \/ HsHookReturn
    \/ HsHookPanics
    \/ HsWgDone
    \/ HsCheckError

HookSpec == HookInit /\ [][HookNext]_vars

\* The interactive command mode end to end: main with cli.Run opened up to the
\* wallet lifecycle it starts with; the context is cancelled by the cancel hook.
CliInit == MainInit /\ mode = "cli" /\ WalletIdle

CliNext ==
    \/ MainSpawnListener
    \/ MainSpawnHandleShutdown
    \/ MainRegisterCancel
    \/ MainConnectToWallet
    \/ MainRegisterCloseWallet
    \/ CliRunOpenWallet
    \/ CliRunReturn
    \/ MainWait
    \/ ListenNotify
    \/ SignalDelivered
    \/ ListenFirstSignal
    \/ ListenLaterSignal
    \/ HsAdd
    \/ HsRecvFromListener
    \/ HsRecvFromMain
    \/ HsRange
    \/ HsCallHook
    \/ HsHookReturn
    \/ HsWgDone
    \/ HsCheckError
    \/ OpenSpawn
    \/ LoadWalletExists
    \/ LoadWalletExistsReturn
    \/ LoadOpenWallet
    \/ LoadOpenWalletReturn
    \/ LoadSend
    \/ OpenSelect
    \/ OpenReturnCtx
    \/ OpenAfterLoad
    \/ OfferRead
    \/ OfferValidate
    \/ OfferClassify
    \/ CreateWalletExists
    \/ CreateWalletExistsReturn
    \/ PassphraseRead
    \/ ConfirmRead
    \/ ComparePassphrases
    \/ GenerateSeed
    \/ GenerateSeedReturn
    \/ BackupRead
    \/ BackupValidate
    \/ CreateWalletCall
    \/ CreateWalletReturn
    \/ SyncSpawn
    \/ SyncCall
    \/ SyncCallReturn
    \/ SyncEnded
    \/ EndedSend
    \/ StartErrSend
    \/ SyncSelect
    \/ SyncReturnCtx

CliSpec == CliInit /\ [][CliNext]_vars

\* --------------------------------------------------------------- properties

\* number of occurrences of x in the sequence s
Count(s, x) == Cardinality({i \in 1..Len(s) : s[i] = x})

\* the process ended through one of the two regular exits of a session: main
\* returning after shutdownWaitGroup.Wait() or handleShutdown's opError check
RegularExit == exited /\ exitedBy \in {"main", "handleShutdown"}

\* C1: once handleShutdown has received the shutdown signal, the hooks are
\* called one after another in registration order (cancel, then CloseWallet),
\* and the process does not exit, by main returning or by the opError check,
\* before every registered hook has completed.
C1_HooksCompleteBeforeExit ==
    hsRecvCount > 0 =>
        /\ Len(started) <= Len(completed) + 1
        /\ \A i \in 1..Len(started) :
               i <= Len(shutdownOps) /\ started[i] = shutdownOps[i]
        /\ RegularExit => completed = shutdownOps

\* the part of C1 the code keeps: the hooks of the slice handleShutdown ranges
\* over run one at a time, in order, and wg.Done() comes after the last of them
C1_SnapshotRunsInOrder ==
    /\ Len(started) <= Len(completed) + 1
    /\ \A i \in 1..Len(started) : started[i] = hsOps[i]
    /\ \A i \in 1..Len(completed) : completed[i] = started[i]
    /\ pcHs \in {"L241", "L244", "returned", "exit"} => completed = hsOps

\* C2: the shutdown trigger is signalled once: the path that fires second
\* (the interrupt listener, or main after its run mode returned) is never left
\* at a send on beginShutdown that no receive will meet, and handleShutdown
\* never starts a second hook run.
C2_SecondTriggerIsNoOp ==
    /\ hsRecvCount <= 1
    /\ hsRecvCount = 1 => ~(MainAtSend \/ pcListen = "L222")

\* C3: however many signals arrive, every hook is called at most once and
\* handleShutdown takes the shutdown signal at most once; the arrival of a
\* signal and the acknowledgment of a later one ("Already shutting down")
\* change neither the hook list nor the state of the shutdown.
C3_HooksAtMostOnce ==
    /\ [](\A h \in {"cancel", "CloseWallet"} : Count(started, h) <= 1)
    /\ [](hsRecvCount <= 1)
    /\ [][(ackCount' # ackCount \/ sigCount' # sigCount) =>
            UNCHANGED <<shutdownOps, hsOps, hsIdx, started, completed, pcHs,
                        hsRecvCount, ctxCancelled, walletClosed, wgCount>>]_vars

\* C3 witness: two signals arrived, the second was acknowledged, and both hooks
\* have run
C3_Witness ==
    /\ sigCount >= 2
    /\ ackCount >= 1
    /\ completed = <<"cancel", "CloseWallet">>

\* C4: when the process ends through a regular exit, its status is 1 exactly
\* when an operational error was recorded in opError.
C4_ExitStatusReflectsOpError ==
    RegularExit => (exitStatus = 1 <=> opError # "nil")


\* C5: when ctx is already cancelled at the moment WalletExists returns,
\* openWallet returns ctx.Err(): it neither takes the loadWalletDone case
\* (middleware error, or the create-wallet flow) nor returns anything else.
C5_CancelledBeforeExistsReturnsCtxErr ==
    (entry = "openWallet" /\ cancelledBeforeExists) =>
        \/ pcW \in {"L91", "L116", "L131"}
        \/ pcW = "returned" /\ result = "ctxErr"

\* C6: when the two passphrases entered differ, createWallet returns the
\* mismatch error at once: CreateWallet is never called and neither passphrase
\* prompt is answered a second time.
C6_MismatchNeverCreates ==
    (/\ passphrase # Unset
     /\ confirmPassphrase # Unset
     /\ passphrase # confirmPassphrase
     /\ pcW # "L37") =>
        /\ pcW = "returned"
        /\ result = "mismatch"
        /\ Count(log, "CreateWallet") = 0
        /\ Count(log, "passphrase") = 1
        /\ Count(log, "confirm") = 1

\* C6 witness: createWallet has returned the mismatch error for two different
\* passphrases
C6_Witness ==
    /\ pcW = "returned"
    /\ result = "mismatch"
    /\ passphrase = <<"a">>
    /\ confirmPassphrase = <<"a", "b">>

\* the answers C7 calls a decline
DeclineAnswers == {<<>>, <<"N">>, <<"n">>}

\* C7: when WalletExists returned false and the answer to the offer is empty,
\* N or n, openWallet returns the user-declined error, and the existence check
\* is the only middleware call of the whole operation.
C7_DeclineMakesNoFurtherCall ==
    /\ [][(/\ entry = "openWallet"
           /\ pcW = "L153"
           /\ pcW' # pcW
           /\ userResponse \in DeclineAnswers) =>
               (pcW' = "returned" /\ result' = "declined")]_vars
    /\ []((entry = "openWallet" /\ result = "declined") =>
               (/\ pcW = "returned"
                /\ noWalletFound
                /\ pcLoad = "done"
                /\ log = <<"WalletExists", "offer">>))

\* C7 witness: openWallet has returned the user-declined error for the answer n
C7_Witness ==
    /\ entry = "openWallet"
    /\ pcW = "returned"
    /\ result = "declined"
    /\ userResponse = <<"n">>

\* an answer as both validators normalise it: trimmed, then without the double
\* quotes around it
Normalised(s) == Trim(TrimSpace(s), {Quote})

\* C8: the offer accepts exactly the answers empty, N, n, y and Y and prompts
\* again for every other; an accepted empty, N or n returns the user-declined
\* error without invoking createWallet, and createWallet is invoked only for
\* y or Y.  (The answer is read as the validator reads it, trimmed and
\* unquoted.)
C8_OfferClassifiedConsistently ==
    [][/\ (pcW = "L147v" /\ pcW' # pcW) =>
              /\ pcW' \in {"L153", "L147"}
              /\ pcW' = "L153" <=>
                     Normalised(line) \in {<<>>, <<"N">>, <<"n">>, <<"y">>, <<"Y">>}
       /\ (pcW = "L153" /\ pcW' # pcW) =>
              IF Normalised(userResponse) \in {<<"y">>, <<"Y">>}
                THEN pcW' = "L15"
                ELSE pcW' = "returned" /\ result' = "declined"]_vars

\* s is a run of spaces followed by a run of double quotes
SpacesThenQuotes(s) ==
    \E k \in 0..Len(s) :
        /\ \A j \in 1..k : s[j] = " "
        /\ \A j \in (k + 1)..Len(s) : s[j] = Quote

\* s is a run of double quotes followed by a run of spaces
QuotesThenSpaces(s) ==
    \E k \in 0..Len(s) :
        /\ \A j \in 1..k : s[j] = Quote
        /\ \A j \in (k + 1)..Len(s) : s[j] = " "

\* strip one pair of surrounding double quotes, when there is one
StripOnePair(s) ==
    IF Len(s) >= 2 /\ s[1] = Quote /\ s[Len(s)] = Quote
      THEN SubSeq(s, 2, Len(s) - 1)
      ELSE s

\* the acknowledgment as C9 words it: trimmed, one pair of quotes stripped,
\* equal to OK whatever the case
BackupOkOnePair(l) ==
    LET s == StripOnePair(TrimSpace(l))
    IN  /\ Len(s) = 2
        /\ s[1] \in {"O", "o"}
        /\ s[2] \in {"K", "k"}

\* the acknowledgment as the code reads it: spaces, then any number of double
\* quotes, then OK in any case, then any number of double quotes, then spaces
BackupOkAnyQuotes(l) ==
    \E i \in 1..(Len(l) - 1) :
        /\ l[i] \in {"O", "o"}
        /\ l[i + 1] \in {"K", "k"}
        /\ SpacesThenQuotes(SubSeq(l, 1, i - 1))
        /\ QuotesThenSpaces(SubSeq(l, i + 2, Len(l)))

C10_SyncResultThroughSyncDone ==
    /\ Cardinality(delivered) <= 1
    /\ startResult \notin {"none", "nil"} =>
           (pcSync \in {"L186", "L186q"} \/ "start" \in delivered)
    /\ (pcSync # "idle" /\ pcW = "returned") =>
           \/ result = "ctxErr" /\ ctxCancelled /\ delivered = {}
           \/ delivered = {"start"} /\ result = startResult /\ result = "startErr"
           \/ delivered = {"SyncEnded"} /\ result = endedErr
                  /\ result \in {"nil", "syncErr"}
    /\ (pcSync # "idle" /\ pcW # "returned") => delivered = {}

\* C10 witness: syncBlockChain has returned the error SyncBlockChain failed
\* to start with, received from syncDone
C10_Witness ==
    /\ pcW = "returned"
    /\ result = "startErr"
    /\ delivered = {"start"}

\* the part of C11 that is openWallet's: when OpenWallet returned an error and
\* openWallet has returned with the context not cancelled, it returned that
\* error and the creation offer was never made
C11_OpenErrorReturned ==
    (/\ entry = "openWallet"
     /\ err = "openErr"
     /\ pcW = "returned"
     /\ ~ctxCancelled) =>
        /\ result = "openErr"
        /\ Count(log, "offer") = 0

\* C11: when the wallet is present and OpenWallet returns an error, with the
\* context not cancelled, openWallet returns exactly that error without
\* offering wallet creation, and the process exit status is 1.
C11_OpenErrorExitsWithOne ==
    /\ C11_OpenErrorReturned
    /\ (/\ entry = "openWallet"
        /\ result = "openErr"
        /\ exited) => exitStatus = 1

\* C12: in each run mode, once the mode's blocking call has returned, main
\* signals shutdown before it waits for handleShutdown, so that without any
\* interrupt signal main waits (main.go:94) only after handleShutdown has taken
\* the shutdown signal, and returns only after every registered hook has run.
C12_ModeReturnSignalsShutdown ==
    sigCount = 0 =>
        /\ pcMain = "L94" => hsRecvCount = 1
        /\ exitedBy = "main" => completed = <<"cancel", "CloseWallet">>

\* C13: a hook is appended to shutdownOps only while the shutdown signal has
\* not been taken, no hook is ever called twice, and once handleShutdown has
\* left its loop every hook appended to shutdownOps has been executed exactly
\* once, whenever the interrupt arrived (also while main connects to the wallet).
C13_EveryRegisteredHookRunsOnce ==
    /\ [][shutdownOps' # shutdownOps => hsRecvCount = 0]_vars
    /\ [](\A h \in {"cancel", "CloseWallet"} : Count(started, h) <= 1)
    /\ [](pcHs \in {"L241", "L244", "returned", "exit"} =>
              \A i \in 1..Len(shutdownOps) : Count(completed, shutdownOps[i]) = 1)

\* a is a prefix of b
IsPrefix(a, b) == Len(a) <= Len(b) /\ a = SubSeq(b, 1, Len(a))

\* the prompts and middleware calls of createWallet, in the order C14 gives
CreateOrder ==
    <<"WalletExists", "passphrase", "confirm", "GenerateNewWalletSeed", "backup",
      "CreateWallet", "SyncBlockChain">>

\* C14: within one createWallet invocation the prompts and middleware calls
\* happen in the order WalletExists, passphrase, confirmation,
\* GenerateNewWalletSeed, backup acknowledgment, CreateWallet, each at most
\* once, CreateWallet only for two equal passphrases; a step that fails makes
\* createWallet return that step's error with no later prompt or call.
C14_CreateWalletStepsInOrder ==
    entry = "createWallet" =>
        /\ IsPrefix(log, CreateOrder)
        /\ Count(log, "CreateWallet") = 1 => passphrase = confirmPassphrase
        /\ result # "none" => pcW = "returned"
        /\ (pcW = "returned" /\ Count(log, "CreateWallet") = 0) =>
               result \in {"existsErr", "alreadyExists", "inputErr", "mismatch",
                           "seedErr"}
        /\ result \in {"existsErr", "alreadyExists"} => log = SubSeq(CreateOrder, 1, 1)
        /\ result = "inputErr" =>
               log \in {SubSeq(CreateOrder, 1, 1), SubSeq(CreateOrder, 1, 2),
                        SubSeq(CreateOrder, 1, 4)}
        /\ result = "mismatch" =>
               log = SubSeq(CreateOrder, 1, 3) /\ passphrase # confirmPassphrase
        /\ result = "seedErr" => log = SubSeq(CreateOrder, 1, 4)
        /\ result = "createErr" => log = SubSeq(CreateOrder, 1, 6)

\* C14 witness: createWallet has called CreateWallet, after every earlier step,
\* and returned its error
C14_Witness ==
    /\ entry = "createWallet"
    /\ pcW = "returned"
    /\ result = "createErr"
    /\ log = SubSeq(CreateOrder, 1, 6)
    /\ passphrase = <<"a", "b">>

\* C15: createWallet starts the blockchain sync exactly when CreateWallet
\* succeeded, after every other step and with nothing after it, and then
\* returns what syncBlockChain returns: the error SyncEnded reported (nil for
\* nil), the error SyncBlockChain failed to start with, or ctx.Err() when the
\* context was cancelled and nothing was received.
C15_SyncIffCreateSucceeded ==
    entry = "createWallet" =>
        /\ pcSync # "idle" =>
               /\ log \in {SubSeq(CreateOrder, 1, 6), CreateOrder}
               /\ result # "createErr"
               /\ pcW \in {"L190", "L190p", "L192", "returned"}
        /\ (Count(log, "CreateWallet") = 1 /\ result # "createErr") =>
               (pcW \in {"L68c", "L164"} \/ pcSync # "idle")
        /\ result = "createErr" => (pcW = "returned" /\ pcSync = "idle")
        /\ (pcSync # "idle" /\ pcW = "returned") =>
               \/ delivered = {"SyncEnded"} /\ result = endedErr
                      /\ result \in {"nil", "syncErr"}
               \/ delivered = {"start"} /\ result = startResult
                      /\ result = "startErr"
               \/ delivered = {} /\ result = "ctxErr" /\ ctxCancelled

\* C15 witness: createWallet has returned nil, the nil SyncEnded reported
\* after CreateWallet succeeded
C15_Witness ==
    /\ entry = "createWallet"
    /\ pcW = "returned"
    /\ result = "nil"
    /\ endedErr = "nil"
    /\ Count(log, "CreateWallet") = 1

\* a call into the wallet middleware has been made and has not returned
MiddlewareCallPending ==
    \/ pcW \in {"L15c", "L43c", "L68c"}
    \/ pcLoad \in {"L99c", "L110c"}
    \/ pcSync = "L183c"

\* C16: every middleware call of the lifecycle operations is made in a spawned
\* task: whenever the context is cancelled while a call is pending, the
\* calling operation is at its select, on its way out through the ctx.Done()
\* case, or has returned; it is never the one waiting inside the call.
C16_CallerNeverWaitsForCallAfterCancel ==
    (ctxCancelled /\ MiddlewareCallPending) =>
        pcW \in {"L116", "L131", "L190", "L192", "returned"}

\* the part of C16 the code keeps: the calls of openWallet and syncBlockChain
\* (WalletExists, OpenWallet, SyncBlockChain) are made in a spawned goroutine
C16_SpawnedCallsAbandoned ==
    (ctxCancelled /\ (pcLoad \in {"L99c", "L110c"} \/ pcSync = "L183c")) =>
        pcW \in {"L116", "L131", "L190", "L192", "returned"}

\* main's next step appends to shutdownOps (main.go:69, 73)
MainAppendsHook == pcMain \in {"L68", "L73"}

\* main's next step assigns opError (main.go:80, 88)
MainWritesOpError == pcMain \in {"L80", "L88"}

\* C17: the accesses to shutdownOps and opError are ordered: there is no state
\* in which main's next step appends to shutdownOps while handleShutdown's next
\* step reads it for its range (main.go:236), nor one in which main's next step
\* assigns opError while handleShutdown's next step reads it (main.go:244).
C17_SharedStateAccessOrdered ==
    /\ ~(MainAppendsHook /\ pcHs = "L236")
    /\ ~(MainWritesOpError /\ pcHs = "L244")

\* C18: a hook that fails does not abort the hooks after it: for every list
\* of two or more hooks and whichever of them fail, when the process ends every
\* hook of the list has been called, and the shutdown has completed (the
\* process ends through main returning or handleShutdown's opError check).
C18_FailingHookDoesNotAbortLaterHooks ==
    (exited /\ hsRecvCount = 1 /\ Len(shutdownOps) >= 2) =>
        /\ started = shutdownOps
        /\ exitedBy \in {"main", "handleShutdown"}

\* the part of C18 the code keeps: a hook that returns, whatever happened
\* inside it, is followed by the next hook of the list
C18_ReturningHooksAllRun ==
    (exited /\ hsRecvCount = 1 /\ exitedBy # "panic") => completed = shutdownOps

\* C19: once openWallet or syncBlockChain has returned, no task it spawned is
\* left blocked in its send on loadWalletDone or syncDone: the channels are
\* unbuffered and the returned operation was their only receiver, so a sender
\* queued on them at that point stays blocked forever.
C19_NoSenderBlockedAfterReturn ==
    pcW = "returned" =>
        /\ pcLoad # "L95q"
        /\ pcSync # "L186q"
        /\ pcEnded # "L176q"

\* C20: after a shutdown triggered by an interrupt (the listener's send was
\* taken) main is never left blocked once the hooks have completed: when
\* handleShutdown has run both hooks, the context is cancelled and
\* handleShutdown has returned, main is not at a send on beginShutdown, which
\* nothing will receive, so the process can still exit.
C20_MainNotBlockedAfterInterruptShutdown ==
    (/\ pcListen = "L226"
     /\ completed = <<"cancel", "CloseWallet">>
     /\ pcHs = "returned") => ~MainAtSend

=============================================================================
